---- MODULE Spec2Model ----
(***************************************************************************)
(* Model of the DOMO export worker: the browser-driven download, the       *)
(* XLSX -> CSV conversion, the MIME composer and the mail delivery          *)
(* (src/domo_export.ts, src/mailer_gmail.ts, src/unnamed/part_000).         *)
(*                                                                         *)
(* src/domo_export.ts holds two scripts: the Gmail API worker (lines        *)
(* 1-150, the async IIFE) and the nodemailer worker (lines 152-388, main).  *)
(* The variable `variant` says which of the two a run executes.            *)
(*                                                                         *)
(* Text is modelled as a sequence of characters; a character is a short    *)
(* token ("a", "/", "NUL", "NBSP", ...), so that the regular expressions   *)
(* of the source act on what they would act on.                            *)
(***************************************************************************)
EXTENDS Integers, Sequences, FiniteSets, TLC

VARIABLES
    fn,         \* the pure function under evaluation ("none" in a pipeline run)
    arg,        \* its arguments
    ret,        \* its result, once it has returned
    variant,    \* "iife" (Gmail API worker) or "main" (nodemailer worker)
    pc,         \* position of the run in its script
    browser,    \* "none" | "open" | "closed"
    todo,       \* downloads the export steps will still produce
    xlsx,       \* saved artifacts: base name -> workbook
    captured,   \* capturedXlsx: base names of the saved artifacts, in order
    csvs,       \* csvs: paths handed to emailCsvs, in order
    writes,     \* the fs.writeFile calls started by xlsxToCsvFiles, in order
    disk,       \* CSV files on disk: path -> what the file holds
    attached,   \* what buildRawMessage read for each attachment so far
    sendCount,  \* invocations of the provider's send call
    delivered,  \* TRUE once a send call has completed successfully
    err,        \* the error that ended the run ("none" if none)
    exitCode    \* -1 while the process runs, then its exit code

pureVars == <<fn, arg, ret>>
runVars  == <<variant, pc, browser, todo, xlsx, captured, csvs, writes, disk,
              attached, sendCount, delivered, err, exitCode>>
vars     == <<fn, arg, ret, variant, pc, browser, todo, xlsx, captured, csvs,
              writes, disk, attached, sendCount, delivered, err, exitCode>>

(***************************************************************************)
(* Bounds of the model.                                                    *)
(***************************************************************************)
MaxPieces == 3

(***************************************************************************)
(* Characters and the character classes of the regular expressions.        *)
(***************************************************************************)
\* [\\/:*?"<>|] of safeFilename and xlsxToCsvFiles
IllegalChars == {"\\", "/", ":", "*", "?", "\"", "<", ">", "|"}
\* \u0000-\u001F; TAB and LF are also whitespace (\s)
ControlChars == {"NUL", "ESC", "TAB", "LF"}
\* \s of JavaScript: the space, the C0 whitespace and the Unicode spaces
WhitespaceChars == {" ", "TAB", "LF", "NBSP"}

\* String.prototype.replace(/[class]/g, r): every character of the class becomes r
ReplaceEach(s, class, r) ==
    [i \in 1..Len(s) |-> IF s[i] \in class THEN r ELSE s[i]]

RECURSIVE CollapseRange(_, _, _)
\* replace(/\s+/g, " ") on s[lo..hi]: a whitespace character that follows
\* another one is dropped, the first of a run becomes one space
CollapseRange(s, lo, hi) ==
    IF lo > hi THEN <<>>
    ELSE IF lo = hi
         THEN IF s[lo] \in WhitespaceChars
              THEN IF lo > 1 /\ s[lo - 1] \in WhitespaceChars
                   THEN <<>>
                   ELSE <<" ">>
              ELSE <<s[lo]>>
         ELSE LET mid == (lo + hi) \div 2
              IN  CollapseRange(s, lo, mid) \o CollapseRange(s, mid + 1, hi)

CollapseWhitespace(s) == CollapseRange(s, 1, Len(s))

\* index of the first character outside the class (Len + 1 if none)
FirstNotIn(s, class) ==
    IF \A i \in 1..Len(s) : s[i] \in class
    THEN Len(s) + 1
    ELSE CHOOSE i \in 1..Len(s) :
            s[i] \notin class /\ \A j \in 1..(i - 1) : s[j] \in class

\* index of the last character outside the class (0 if none)
LastNotIn(s, class) ==
    IF \A i \in 1..Len(s) : s[i] \in class
    THEN 0
    ELSE CHOOSE i \in 1..Len(s) :
            s[i] \notin class /\ \A j \in (i + 1)..Len(s) : s[j] \in class

\* the string without its trailing characters of the class (/[class]+$/)
TrimEnd(s, class) == SubSeq(s, 1, LastNotIn(s, class))

TrimStart(s, class) == SubSeq(s, FirstNotIn(s, class), Len(s))

\* String.prototype.trim()
Trim(s) == TrimEnd(TrimStart(s, WhitespaceChars), WhitespaceChars)

\* case-insensitive match of one character (the /i flag)
Lower(c) ==
    CASE c = "X" -> "x"
      [] c = "L" -> "l"
      [] c = "S" -> "s"
      [] c = "C" -> "c"
      [] c = "V" -> "v"
      [] OTHER -> c

EndsWithCI(s, suffix) ==
    /\ Len(s) >= Len(suffix)
    /\ \A i \in 1..Len(suffix) :
          Lower(s[Len(s) - Len(suffix) + i]) = suffix[i]

EndsWith(s, suffix) ==
    /\ Len(s) >= Len(suffix)
    /\ SubSeq(s, Len(s) - Len(suffix) + 1, Len(s)) = suffix

DropLast(s, n) == SubSeq(s, 1, Len(s) - n)

\* the extension strip as the comment at line 31 words it, .xlsx/.xls only
\* (a plausible slip: the csv alternative left out)
StripSheetExtOnly(s) ==
    IF EndsWithCI(s, <<".", "x", "l", "s", "x">>) THEN DropLast(s, 5)
    ELSE IF EndsWithCI(s, <<".", "x", "l", "s">>) THEN DropLast(s, 4)
    ELSE s

\* replace(/\.(xlsx?|csv)$/i, ""): the alternation tries xlsx, xls, then csv
StripSheetOrCsvExt(s) ==
    IF EndsWithCI(s, <<".", "x", "l", "s", "x">>) THEN DropLast(s, 5)
    ELSE IF EndsWithCI(s, <<".", "x", "l", "s">>) THEN DropLast(s, 4)
    ELSE IF EndsWithCI(s, <<".", "c", "s", "v">>) THEN DropLast(s, 4)
    ELSE s

\* replace(/\.(xlsx?)$/i, "") of xlsxToCsvFiles
StripXlsxExt(s) ==
    IF EndsWithCI(s, <<".", "x", "l", "s", "x">>) THEN DropLast(s, 5)
    ELSE IF EndsWithCI(s, <<".", "x", "l", "s">>) THEN DropLast(s, 4)
    ELSE s

MaxBaseLen == 180
FallbackName == <<"e", "x", "p", "o", "r", "t">>

\* safeFilename without the length guard (a plausible slip)
safeFilenameNoSlice(name, finalExt) ==
    LET b1 == ReplaceEach(name, IllegalChars \cup ControlChars, " ")
        b2 == Trim(CollapseWhitespace(b1))
        b3 == TrimEnd(b2, {"."})
        b4 == StripSheetOrCsvExt(b3)
        b5 == IF Len(b4) = 0 THEN FallbackName ELSE b4
    IN  b5 \o finalExt

\* safeFilename (src/domo_export.ts:16-38)
safeFilename(name, finalExt) ==
    LET b1 == ReplaceEach(name, IllegalChars \cup ControlChars, " ")
        b2 == Trim(CollapseWhitespace(b1))
        b3 == TrimEnd(b2, {"."})
        b4 == StripSheetOrCsvExt(b3)
        b5 == IF Len(b4) = 0 THEN FallbackName ELSE b4
        b6 == IF Len(b5) > MaxBaseLen THEN SubSeq(b5, 1, MaxBaseLen) ELSE b5
    IN  b6 \o finalExt

(***************************************************************************)
(* Inputs of safeFilename: names built from up to MaxPieces pieces.  The   *)
(* pieces hold every character class, the recognised extensions in both    *)
(* cases and runs long enough to reach the length guard.                   *)
(***************************************************************************)
Run(c, n) == [i \in 1..n |-> c]

NamePieces ==
    { <<"a">>, <<"/">>, <<"TAB">>, <<"NUL">>, <<" ">>, <<"NBSP">>, <<".">>,
      <<".", "x", "l", "s", "x">>, <<".", "X", "L", "S">>,
      <<".", "c", "s", "v">>,
      Run("a", 179), Run("/", 181) }

RECURSIVE NamesUpTo(_)
NamesUpTo(n) ==
    IF n = 0 THEN {<<>>}
    ELSE LET shorter == NamesUpTo(n - 1)
         IN  shorter \cup {s \o p : s \in shorter, p \in NamePieces}

SuggestedNames == NamesUpTo(MaxPieces)

\* the extensions the callers pass: saveDownload's default and the CSV one
Extensions == { <<".", "x", "l", "s", "x">>, <<".", "c", "s", "v">>,
                <<".", "x", "l", "s">> }

(***************************************************************************)
(* Idle values: a pure-function specification leaves the run idle and a    *)
(* run leaves the pure-function variables idle.                            *)
(***************************************************************************)
RunIdle ==
    /\ variant = "none"
    /\ pc = "idle"
    /\ browser = "none"
    /\ todo = <<>>
    /\ xlsx = <<>>
    /\ captured = <<>>
    /\ csvs = <<>>
    /\ writes = <<>>
    /\ disk = <<>>
    /\ attached = <<>>
    /\ sendCount = 0
    /\ delivered = FALSE
    /\ err = "none"
    /\ exitCode = -1

PureIdle ==
    /\ fn = "none"
    /\ arg = <<>>
    /\ ret = <<>>

(***************************************************************************)
(* Specification of safeFilename: a call with any input, then its return.  *)
(***************************************************************************)
InitSafeFilename ==
    /\ fn = "safeFilename"
    /\ arg \in {<<n, e>> : n \in SuggestedNames, e \in Extensions}
    /\ ret = <<>>
    /\ RunIdle

CallSafeFilename ==
    /\ fn = "safeFilename"
    /\ ret = <<>>
    /\ ret' = <<safeFilename(arg[1], arg[2])>>
    /\ UNCHANGED <<fn, arg>>
    /\ UNCHANGED runVars

SpecSafeFilename == InitSafeFilename /\ [][CallSafeFilename]_vars

\* C5: for every suggested name and a requested extension of at most 4
\* characters, safeFilename returns a non-empty string that holds no control
\* character, path separator or one of : * ? " < > |, ends with the requested
\* extension and is at most 184 characters long.
SafeFilenameOutputIsSafe ==
    (fn = "safeFilename" /\ ret # <<>> /\ Len(arg[2]) <= 4) =>
        LET out == ret[1]
        IN  /\ \A i \in 1..Len(out) : out[i] \notin IllegalChars \cup ControlChars
            /\ Len(out) > 0
            /\ EndsWith(out, arg[2])
            /\ Len(out) <= 184
            /\ Len(out) > Len(arg[2])

\* a name made only of illegal characters, longer than the guard, has been
\* sanitised to the fallback; and a long name has been cut to 180 + 4
SafeFilenameWitness ==
    /\ fn = "safeFilename"
    /\ ret # <<>>
    /\ Len(arg[2]) = 4
    /\ Len(arg[1]) > 184
    /\ \E i \in 1..Len(arg[1]) : arg[1][i] \in IllegalChars
    /\ Len(ret[1]) = 184

\* the result with the caller's extension removed
BaseOf(result, finalExt) == DropLast(result, Len(finalExt))

EndsWithRecognisedExt(s) ==
    \/ EndsWithCI(s, <<".", "x", "l", "s", "x">>)
    \/ EndsWithCI(s, <<".", "x", "l", "s">>)
    \/ EndsWithCI(s, <<".", "c", "s", "v">>)

\* C11 (as claimed): the base part of the result does not end with a dot,
\* with whitespace or with a recognised extension, unless it is the fallback
\* "export".
BaseHasCleanEnd ==
    (fn = "safeFilename" /\ ret # <<>>) =>
        LET base == BaseOf(ret[1], arg[2])
        IN  \/ base = FallbackName
            \/ /\ Len(base) > 0
               /\ base[Len(base)] \notin {"."} \cup WhitespaceChars
               /\ ~EndsWithRecognisedExt(base)

\* C11 (amended): sanitising the result again with the same extension
\* (.xlsx, .xls or .csv) returns the result unchanged.
ResanitizeIsIdentity ==
    (fn = "safeFilename" /\ ret # <<>>) =>
        safeFilename(ret[1], arg[2]) = ret[1]

\* a result whose base part ends with a dot, with a space or with a
\* recognised extension, and is not the fallback, has been returned
ResanitizeWitness ==
    /\ fn = "safeFilename"
    /\ ret # <<>>
    /\ LET base == BaseOf(ret[1], arg[2])
       IN  /\ base # FallbackName
           /\ Len(base) > 1
           /\ base[Len(base)] \in {".", " "}
           /\ Len(arg[1]) > MaxBaseLen

(***************************************************************************)
(* xlsxToCsvFiles (src/domo_export.ts:53-66).  A workbook is its sequence  *)
(* of sheet names (XLSX.readFile's wb.SheetNames) and whether              *)
(* XLSX.readFile can read it at all (it throws otherwise).  A file of the  *)
(* download directory is named by its base name.                           *)
(***************************************************************************)
Unreadable == [readable |-> FALSE, sheets |-> <<>>]

Workbook(sheetNames) == [readable |-> TRUE, sheets |-> sheetNames]

XlsxExt == <<".", "x", "l", "s", "x">>
CsvExt == <<".", "c", "s", "v">>

\* sheetName.replace(/[\\/:*?"<>|]/g, "_").replace(/\s+/g, " ").trim()
safeSheet(sheetName) ==
    Trim(CollapseWhitespace(ReplaceEach(sheetName, IllegalChars, "_")))

\* `${base} - ${safeSheet}.csv`
csvPath(xlsxPath, sheetName) ==
    StripXlsxExt(xlsxPath) \o <<" ", "-", " ">> \o safeSheet(sheetName) \o CsvExt

\* outFiles: one path per sheet, in wb.SheetNames order
xlsxToCsvFiles(xlsxPath, sheetNames) ==
    [i \in 1..Len(sheetNames) |-> csvPath(xlsxPath, sheetNames[i])]

\* the fs.writeFile(out, csv) calls of one conversion, none of them awaited
startedWrites(xlsxPath, sheetNames) ==
    [i \in 1..Len(sheetNames) |->
        [path |-> csvPath(xlsxPath, sheetNames[i]),
         content |-> <<xlsxPath, sheetNames[i]>>,
         st |-> "queued"]]

(***************************************************************************)
(* Inputs of a run.                                                        *)
(***************************************************************************)
MaxDownloads == 2

\* two sheets whose names differ only in an illegal character, and a plain one
SheetLT == <<"a", "<", "b">>
SheetGT == <<"a", ">", "b">>
SheetS == <<"s">>

Workbooks == { Unreadable, Workbook(<<SheetS>>), Workbook(<<SheetLT, SheetGT>>),
               Workbook(<<SheetS, SheetLT>>) }

\* download.suggestedFilename(): two of them sanitise to the same file name
SuggestedInRun == { <<"r">>, <<"r", ":">>, <<"q", ".", "x", "l", "s", "x">> }

DownloadEvents == [name : SuggestedInRun, wb : Workbooks]

RECURSIVE DownloadSeqs(_)
DownloadSeqs(n) ==
    IF n = 0 THEN {<<>>}
    ELSE LET shorter == DownloadSeqs(n - 1)
         IN  shorter \cup {Append(q, d) : q \in shorter, d \in DownloadEvents}

\* `./exporter/downloads/domo_export_${startDate}_to_${endDate}` of main
MainBase == <<"domo_export_S_to_E">>

NoFile == [content |-> <<>>, whole |-> FALSE]

Put(f, k, v) == [x \in DOMAIN f \cup {k} |-> IF x = k THEN v ELSE f[x]]

Running == exitCode = -1

AllWritesSettled == \A i \in 1..Len(writes) : writes[i].st = "done"

InitRun ==
    /\ PureIdle
    /\ variant \in {"iife", "main"}
    /\ pc = IF variant = "iife" THEN "launch" ELSE "m_env"
    /\ browser = "none"
    /\ todo \in IF variant = "iife"
                THEN DownloadSeqs(MaxDownloads)
                ELSE {<<d>> : d \in [name : {MainBase}, wb : Workbooks]}
    /\ xlsx = <<>>
    /\ captured = <<>>
    /\ csvs = <<>>
    /\ writes = <<>>
    /\ disk = <<>>
    /\ attached = <<>>
    /\ sendCount = 0
    /\ delivered = FALSE
    /\ err = "none"
    /\ exitCode = -1

(***************************************************************************)
(* The Gmail API worker: the async IIFE of src/domo_export.ts:82-150.      *)
(***************************************************************************)
\* lines 83-85: ensureDir, chromium.launch
Launch ==
    /\ Running /\ variant = "iife" /\ pc = "launch"
    /\ \E ok \in BOOLEAN :
          IF ok
          THEN browser' = "open" /\ pc' = "goto" /\ UNCHANGED err
          ELSE err' = "launch" /\ pc' = "catch" /\ UNCHANGED browser
    /\ UNCHANGED <<todo, xlsx, captured, csvs, writes, disk, attached,
                   sendCount, delivered, exitCode, variant>>
    /\ UNCHANGED pureVars

\* lines 86-94: newContext, newPage, page.goto (login and navigation)
Goto ==
    /\ Running /\ variant = "iife" /\ pc = "goto"
    /\ \E ok \in BOOLEAN :
          IF ok
          THEN pc' = "export" /\ UNCHANGED err
          ELSE err' = "navigation" /\ pc' = "catch"
    /\ UNCHANGED <<browser, todo, xlsx, captured, csvs, writes, disk, attached,
                   sendCount, delivered, exitCode, variant>>
    /\ UNCHANGED pureVars

\* lines 107-133: the export steps.  As the script stands they are comments
\* and capturedXlsx stays empty (todo = <<>>); the steps the comments
\* prescribe are each
\*   capturedXlsx.push(await saveDownload(download, ".xlsx"))
\* after page.waitForEvent("download"); saveDownload is lines 44-51
SaveDownload ==
    /\ Running /\ variant = "iife" /\ pc = "export"
    /\ IF todo = <<>>
       THEN /\ pc' = "convert"
            /\ UNCHANGED <<todo, xlsx, captured, err>>
       ELSE \E ok \in BOOLEAN :
              IF ok
              THEN LET safe == safeFilename(Head(todo).name, XlsxExt)
                   IN  /\ xlsx' = Put(xlsx, safe, Head(todo).wb)
                       /\ captured' = Append(captured, safe)
                       /\ todo' = Tail(todo)
                       /\ UNCHANGED <<pc, err>>
              ELSE /\ err' = "download"
                   /\ pc' = "catch"
                   /\ UNCHANGED <<todo, xlsx, captured>>
    /\ UNCHANGED <<browser, csvs, writes, disk, attached, sendCount, delivered,
                   exitCode, variant>>
    /\ UNCHANGED pureVars

\* lines 136-140: one iteration of the conversion loop, or its end
ConvertNext ==
    /\ Running /\ variant = "iife" /\ pc = "convert"
    /\ IF captured = <<>>
       THEN /\ pc' = "email"
            /\ UNCHANGED <<captured, csvs, writes, err>>
       ELSE LET xPath == Head(captured)
                wb == xlsx[xPath]
            IN  IF ~wb.readable
                THEN /\ err' = "conversion"
                     /\ pc' = "catch"
                     /\ UNCHANGED <<captured, csvs, writes>>
                ELSE /\ csvs' = csvs \o xlsxToCsvFiles(xPath, wb.sheets)
                     /\ writes' = writes \o startedWrites(xPath, wb.sheets)
                     /\ captured' = Tail(captured)
                     /\ UNCHANGED <<pc, err>>
    /\ UNCHANGED <<browser, todo, xlsx, disk, attached, sendCount, delivered,
                   exitCode, variant>>
    /\ UNCHANGED pureVars

\* emailCsvs, lines 68-79: where the run goes for a list of paths
emailCsvsReturnsEarly(paths) == Len(paths) = 0

EmailCsvs ==
    /\ Running /\ variant = "iife" /\ pc = "email"
    /\ pc' = IF emailCsvsReturnsEarly(csvs) THEN "close" ELSE "build"
    /\ UNCHANGED <<browser, todo, xlsx, captured, csvs, writes, disk, attached,
                   sendCount, delivered, err, exitCode, variant>>
    /\ UNCHANGED pureVars

\* src/mailer_gmail.ts:32-34: buildRawMessage reads the next attachment
ReadAttachment ==
    /\ Running /\ variant = "iife" /\ pc = "build"
    /\ LET p == csvs[Len(attached) + 1]
       IN  IF p \in DOMAIN disk
           THEN /\ attached' = Append(attached, disk[p])
                /\ pc' = IF Len(attached) + 1 = Len(csvs) THEN "send" ELSE "build"
                /\ UNCHANGED err
           ELSE /\ err' = "read"
                /\ pc' = "catch"
                /\ UNCHANGED attached
    /\ UNCHANGED <<browser, todo, xlsx, captured, csvs, writes, disk,
                   sendCount, delivered, exitCode, variant>>
    /\ UNCHANGED pureVars

\* src/mailer_gmail.ts:71-76: gmail.users.messages.send; the OAuth2 client
\* exchanges the refresh token inside this call
GmailSend ==
    /\ Running /\ variant = "iife" /\ pc = "send"
    /\ sendCount' = sendCount + 1
    /\ \E outcome \in {"ok", "token", "send"} :
          IF outcome = "ok"
          THEN delivered' = TRUE /\ pc' = "close" /\ UNCHANGED err
          ELSE err' = outcome /\ pc' = "catch" /\ UNCHANGED delivered
    /\ UNCHANGED <<browser, todo, xlsx, captured, csvs, writes, disk, attached,
                   exitCode, variant>>
    /\ UNCHANGED pureVars

\* line 145: browser.close()
Close ==
    /\ Running /\ variant = "iife" /\ pc = "close"
    /\ browser' = "closed"
    /\ pc' = "done"
    /\ UNCHANGED <<todo, xlsx, captured, csvs, writes, disk, attached,
                   sendCount, delivered, err, exitCode, variant>>
    /\ UNCHANGED pureVars

\* the IIFE has resolved: the process ends with code 0 once no file write
\* is left on the event loop
ExitOk ==
    /\ Running /\ variant = "iife" /\ pc = "done"
    /\ AllWritesSettled
    /\ exitCode' = 0
    /\ UNCHANGED <<browser, todo, xlsx, captured, csvs, writes, disk, attached,
                   sendCount, delivered, err, pc, variant>>
    /\ UNCHANGED pureVars

\* lines 146-150: the catch handler, process.exit(1)
CatchExit ==
    /\ Running /\ variant = "iife" /\ pc = "catch"
    /\ exitCode' = 1
    /\ UNCHANGED <<browser, todo, xlsx, captured, csvs, writes, disk, attached,
                   sendCount, delivered, err, pc, variant>>
    /\ UNCHANGED pureVars

(***************************************************************************)
(* The file writes of line 62, fs.writeFile(out, csv) of fs/promises with  *)
(* no await and no catch: each runs on the thread pool beside the script.  *)
(***************************************************************************)
SetSt(i, st) == [writes EXCEPT ![i].st = st]

\* the file is opened with flag "w": created or truncated
WriteOpen(i) ==
    /\ Running /\ writes[i].st = "queued"
    /\ writes' = SetSt(i, "open")
    /\ disk' = Put(disk, writes[i].path, NoFile)
    /\ UNCHANGED <<browser, todo, xlsx, captured, csvs, attached, sendCount,
                   delivered, err, exitCode, pc, variant>>
    /\ UNCHANGED pureVars

\* the data is written and the file closed
WriteFinish(i) ==
    /\ Running /\ writes[i].st = "open"
    /\ writes' = SetSt(i, "done")
    /\ disk' = Put(disk, writes[i].path,
                   [content |-> writes[i].content, whole |-> TRUE])
    /\ UNCHANGED <<browser, todo, xlsx, captured, csvs, attached, sendCount,
                   delivered, err, exitCode, pc, variant>>
    /\ UNCHANGED pureVars

\* the write fails (EACCES, ENOSPC, ...): the promise rejects with no handler
\* and Node ends the process with code 1
WriteFail(i) ==
    /\ Running /\ writes[i].st \in {"queued", "open"}
    /\ writes' = SetSt(i, "failed")
    /\ err' = IF err = "none" THEN "unhandledRejection" ELSE err
    /\ exitCode' = 1
    /\ UNCHANGED <<browser, todo, xlsx, captured, csvs, disk, attached,
                   sendCount, delivered, pc, variant>>
    /\ UNCHANGED pureVars

FileWrite ==
    \E i \in 1..Len(writes) : WriteOpen(i) \/ WriteFinish(i) \/ WriteFail(i)

(***************************************************************************)
(* The nodemailer worker: main of src/domo_export.ts:152-388.              *)
(***************************************************************************)
MainXlsx == MainBase \o XlsxExt
MainCsv == MainBase \o CsvExt

\* every failure inside the try block goes through catch (rethrow) to finally
Fails(kind) ==
    /\ err' = kind
    /\ pc' = "m_finally"

\* lines 162-183: the required environment; a throw at module level is an
\* uncaught exception, the process ends with code 1
EnvCheck ==
    /\ Running /\ variant = "main" /\ pc = "m_env"
    /\ \E ok \in BOOLEAN :
          IF ok
          THEN pc' = "m_launch" /\ UNCHANGED <<err, exitCode>>
          ELSE err' = "config" /\ exitCode' = 1 /\ UNCHANGED pc
    /\ UNCHANGED <<browser, todo, xlsx, captured, csvs, writes, disk, attached,
                   sendCount, delivered, variant>>
    /\ UNCHANGED pureVars

\* lines 314-316: chromium.launch, before the try block
MainLaunch ==
    /\ Running /\ variant = "main" /\ pc = "m_launch"
    /\ \E ok \in BOOLEAN :
          IF ok
          THEN browser' = "open" /\ pc' = "m_login" /\ UNCHANGED err
          ELSE err' = "launch" /\ pc' = "m_settled" /\ UNCHANGED browser
    /\ UNCHANGED <<todo, xlsx, captured, csvs, writes, disk, attached,
                   sendCount, delivered, exitCode, variant>>
    /\ UNCHANGED pureVars

\* lines 319-330: newContext, newPage, the login form
MainLogin ==
    /\ Running /\ variant = "main" /\ pc = "m_login"
    /\ \E ok \in BOOLEAN :
          IF ok THEN pc' = "m_navigate" /\ UNCHANGED err ELSE Fails("login")
    /\ UNCHANGED <<browser, todo, xlsx, captured, csvs, writes, disk, attached,
                   sendCount, delivered, exitCode, variant>>
    /\ UNCHANGED pureVars

\* lines 333-343: the date range, page.goto(url), waitForLoadState,
\* waitForSelector
MainNavigate ==
    /\ Running /\ variant = "main" /\ pc = "m_navigate"
    /\ \E ok \in BOOLEAN :
          IF ok THEN pc' = "m_download" /\ UNCHANGED err ELSE Fails("navigation")
    /\ UNCHANGED <<browser, todo, xlsx, captured, csvs, writes, disk, attached,
                   sendCount, delivered, exitCode, variant>>
    /\ UNCHANGED pureVars

\* lines 346-352: waitForEvent('download'), the click, the download event
\* (the wait rejects when its timeout passes)
MainDownload ==
    /\ Running /\ variant = "main" /\ pc = "m_download"
    /\ \E ok \in BOOLEAN :
          IF ok THEN pc' = "m_save" /\ UNCHANGED err ELSE Fails("download")
    /\ UNCHANGED <<browser, todo, xlsx, captured, csvs, writes, disk, attached,
                   sendCount, delivered, exitCode, variant>>
    /\ UNCHANGED pureVars

\* lines 353-355: download.saveAs(xlsxPath)
MainSave ==
    /\ Running /\ variant = "main" /\ pc = "m_save"
    /\ \E ok \in BOOLEAN :
          IF ok
          THEN /\ xlsx' = Put(xlsx, MainXlsx, Head(todo).wb)
               /\ captured' = <<MainXlsx>>
               /\ todo' = Tail(todo)
               /\ pc' = "m_convert"
               /\ UNCHANGED err
          ELSE /\ Fails("save")
               /\ UNCHANGED <<xlsx, captured, todo>>
    /\ UNCHANGED <<browser, csvs, writes, disk, attached, sendCount, delivered,
                   exitCode, variant>>
    /\ UNCHANGED pureVars

\* lines 357-370: readFile, the first sheet to CSV with writeFileSync, and
\* the unlink of the XLSX file
MainConvert ==
    /\ Running /\ variant = "main" /\ pc = "m_convert"
    /\ LET wb == xlsx[MainXlsx]
       IN  IF ~wb.readable
           THEN /\ Fails("conversion")
                /\ UNCHANGED <<xlsx, captured, csvs, disk>>
           ELSE \E ok \in BOOLEAN :
                  IF ok
                  THEN /\ disk' = Put(disk, MainCsv,
                                      [content |-> <<MainXlsx, wb.sheets[1]>>,
                                       whole |-> TRUE])
                       /\ csvs' = <<MainCsv>>
                       /\ xlsx' = <<>>
                       /\ captured' = <<>>
                       /\ pc' = "m_transport"
                       /\ UNCHANGED err
                  ELSE /\ Fails("save")
                       /\ UNCHANGED <<xlsx, captured, csvs, disk>>
    /\ UNCHANGED <<browser, todo, writes, attached, sendCount, delivered,
                   exitCode, variant>>
    /\ UNCHANGED pureVars

\* sendReportEmail, lines 258-270: createEmailTransporter (with the token
\* exchange when the OAuth credentials are set), transporter.verify, the
\* recipient list
MainTransport ==
    /\ Running /\ variant = "main" /\ pc = "m_transport"
    /\ \E hasGoogleOAuthCreds \in BOOLEAN :
       \E outcome \in {"ok", "token", "verify", "config"} :
          /\ outcome = "token" => hasGoogleOAuthCreds
          /\ IF outcome = "ok"
             THEN pc' = "m_sendMail" /\ UNCHANGED err
             ELSE Fails(outcome)
    /\ UNCHANGED <<browser, todo, xlsx, captured, csvs, writes, disk, attached,
                   sendCount, delivered, exitCode, variant>>
    /\ UNCHANGED pureVars

\* lines 278-291: transporter.sendMail with the one attachment
MainSendMail ==
    /\ Running /\ variant = "main" /\ pc = "m_sendMail"
    /\ sendCount' = sendCount + 1
    /\ attached' = <<disk[csvs[1]]>>
    /\ \E ok \in BOOLEAN :
          IF ok
          THEN delivered' = TRUE /\ pc' = "m_finally" /\ UNCHANGED err
          ELSE Fails("send") /\ UNCHANGED delivered
    /\ UNCHANGED <<browser, todo, xlsx, captured, csvs, writes, disk,
                   exitCode, variant>>
    /\ UNCHANGED pureVars

\* lines 380-385: catch logs and rethrows, finally closes the browser
MainFinally ==
    /\ Running /\ variant = "main" /\ pc = "m_finally"
    /\ browser' = "closed"
    /\ pc' = "m_settled"
    /\ UNCHANGED <<todo, xlsx, captured, csvs, writes, disk, attached,
                   sendCount, delivered, err, exitCode, variant>>
    /\ UNCHANGED pureVars

\* line 388: main().catch(console.error): a rejection is logged and the
\* process ends normally, with code 0, as it does after a success
MainExit ==
    /\ Running /\ variant = "main" /\ pc = "m_settled"
    /\ exitCode' = 0
    /\ UNCHANGED <<browser, todo, xlsx, captured, csvs, writes, disk, attached,
                   sendCount, delivered, err, pc, variant>>
    /\ UNCHANGED pureVars

Next ==
    \/ Launch \/ Goto \/ SaveDownload \/ ConvertNext \/ EmailCsvs
    \/ ReadAttachment \/ GmailSend \/ Close \/ ExitOk \/ CatchExit
    \/ FileWrite
    \/ EnvCheck \/ MainLaunch \/ MainLogin \/ MainNavigate \/ MainDownload
    \/ MainSave \/ MainConvert \/ MainTransport \/ MainSendMail
    \/ MainFinally \/ MainExit

Spec == InitRun /\ [][Next]_vars

Terminated == exitCode # -1

\* C1: no run terminates with the browser it opened still open.
BrowserClosedOnEveryExit ==
    Terminated => browser # "open"

\* C2: for every run, exit code = 0 if and only if the mail send completed
\* successfully.
ExitZeroIffDelivered ==
    Terminated => (exitCode = 0 <=> delivered)

\* C3: a run that gets through the conversion with zero CSV files still
\* sends a message; the send step is not skipped for an empty list.
EmptyListStillSent ==
    (Terminated /\ err = "none" /\ Len(csvs) = 0) => sendCount = 1

\* the failures of the stages before the send call
PreSendFailures ==
    {"launch", "login", "navigation", "download", "save", "conversion",
     "read", "config", "verify", "unhandledRejection"}

\* C4: the send is invoked at most once, only after every download and every
\* conversion (the CSV files written) has completed, and not at all after a
\* stage before it has failed.
SendOnceAfterAllStages ==
    /\ sendCount <= 1
    /\ err \in PreSendFailures => sendCount = 0
    /\ sendCount = 1 =>
          /\ todo = <<>>
          /\ captured = <<>>
          /\ \A i \in 1..Len(writes) : writes[i].st = "done"
          /\ \A i \in 1..Len(attached) : attached[i].whole

\* C10: an artifact that cannot be read as a spreadsheet is skipped; a
\* conversion error never ends the run.
ConversionErrorIsRecovered ==
    err # "conversion"

\* C12: every CSV file is completely written before the composer reads it:
\* no attachment is read from a file whose write has not finished, no read
\* fails because the file does not exist yet, and no write fails without
\* the script observing it.
WritesFinishBeforeReads ==
    /\ \A i \in 1..Len(attached) : attached[i].whole
    /\ err # "read"
    /\ \A i \in 1..Len(writes) : writes[i].st = "failed" => err = "write"

(***************************************************************************)
(* Specification of the conversion alone: xlsxToCsvFiles on a readable     *)
(* workbook, and the conversion of main (first sheet only).  The sheet     *)
(* names are names a workbook can hold: non-empty, distinct within the     *)
(* workbook, no leading or trailing space.                                 *)
(***************************************************************************)
MaxSheets == 2
MaxSheetNameLen == 2

SheetChars == {"a", "<", ">", " "}

RECURSIVE CharSeqs(_, _)
CharSeqs(chars, n) ==
    IF n = 0 THEN {<<>>}
    ELSE LET shorter == CharSeqs(chars, n - 1)
         IN  shorter \cup {Append(q, c) : q \in shorter, c \in chars}

SheetNames ==
    {n \in CharSeqs(SheetChars, MaxSheetNameLen) :
        Len(n) > 0 /\ n[1] # " " /\ n[Len(n)] # " "}

RECURSIVE SheetLists(_)
SheetLists(n) ==
    IF n = 0 THEN {<<>>}
    ELSE LET shorter == SheetLists(n - 1)
         IN  shorter \cup
             UNION {{Append(q, x) : x \in {y \in SheetNames :
                                              \A i \in 1..Len(q) : q[i] # y}} :
                    q \in shorter}

InitConvert ==
    /\ fn \in {"xlsxToCsvFiles", "mainConvert"}
    /\ arg \in {<<x, w>> : x \in {<<"r">> \o XlsxExt, <<"r", ".", "X", "L", "S">>},
                          w \in SheetLists(MaxSheets) \ {<<>>}}
    /\ ret = <<>>
    /\ RunIdle

\* the files on disk once the writes of a conversion are done
FilesOf(outFiles) == {outFiles[i] : i \in 1..Len(outFiles)}

CallXlsxToCsvFiles ==
    /\ fn = "xlsxToCsvFiles"
    /\ ret = <<>>
    /\ ret' = <<xlsxToCsvFiles(arg[1], arg[2])>>
    /\ UNCHANGED <<fn, arg>>
    /\ UNCHANGED runVars

\* src/domo_export.ts:357-367: workbook.SheetNames[0] alone is written
CallMainConvert ==
    /\ fn = "mainConvert"
    /\ ret = <<>>
    /\ ret' = <<<<MainCsv>>>>
    /\ UNCHANGED <<fn, arg>>
    /\ UNCHANGED runVars

SpecConvert == InitConvert /\ [][CallXlsxToCsvFiles \/ CallMainConvert]_vars

\* C6: converting a workbook with N worksheets produces exactly N CSV files,
\* one per sheet, and returns their N paths in sheet order.
OneCsvFilePerSheet ==
    (fn \in {"xlsxToCsvFiles", "mainConvert"} /\ ret # <<>>) =>
        LET out == ret[1]
            N == Len(arg[2])
        IN  /\ Len(out) = N
            /\ Cardinality(FilesOf(out)) = N

(***************************************************************************)
(* buildRawMessage (src/mailer_gmail.ts:19-51).  A file is a sequence of   *)
(* bytes; base64 text is a sequence of symbols: 0..63 the alphabet, Pad    *)
(* the "=" and NL the line feed.  The message is the sequence of the lines *)
(* that lines.join("\r\n") joins; a line is its text and, for an           *)
(* attachment body, its base64 symbols.                                    *)
(***************************************************************************)
Pad == 64
NL == 65
WrapWidth == 76

ByteAt(bytes, i) == IF i <= Len(bytes) THEN bytes[i] ELSE 0

\* Buffer.prototype.toString("base64")
toBase64(bytes) ==
    [j \in 1..(4 * ((Len(bytes) + 2) \div 3)) |->
        LET g == (j - 1) \div 4
            k == (j - 1) % 4
            b1 == ByteAt(bytes, 3 * g + 1)
            b2 == ByteAt(bytes, 3 * g + 2)
            b3 == ByteAt(bytes, 3 * g + 3)
        IN  IF k >= 2 /\ 3 * g + k > Len(bytes) THEN Pad
            ELSE CASE k = 0 -> b1 \div 4
                   [] k = 1 -> (b1 % 4) * 16 + b2 \div 16
                   [] k = 2 -> (b2 % 16) * 4 + b3 \div 64
                   [] k = 3 -> b3 % 64]

\* replace(/(.{76})/g, "$1\n"): a line feed after every full 76 symbols
wrap76(b64) ==
    [p \in 1..(Len(b64) + Len(b64) \div WrapWidth) |->
        IF p % (WrapWidth + 1) = 0 THEN NL ELSE b64[p - p \div (WrapWidth + 1)]]

Line(text) == [s |-> text, b |-> <<>>]
B64Line(symbols) == [s |-> "", b |-> symbols]

\* "mixed_" + Math.random().toString(36).slice(2)
boundaryOf(token) == "mixed_" \o token

\* att.filename.toLowerCase().endsWith(".csv")
mimeOf(att) == IF att.csv THEN "text/csv" ELSE "application/octet-stream"

\* lines 38-41: the lines of one attachment part
attachmentLines(att, boundary) ==
    << Line("--" \o boundary),
       Line("Content-Type: " \o mimeOf(att) \o "; name=" \o att.filename),
       Line("Content-Transfer-Encoding: base64"),
       Line("Content-Disposition: attachment; filename=" \o att.filename),
       Line(""),
       B64Line(wrap76(toBase64(att.content))),
       Line("") >>

RECURSIVE allAttachmentLines(_, _)
allAttachmentLines(atts, boundary) ==
    IF atts = <<>> THEN <<>>
    ELSE attachmentLines(Head(atts), boundary)
         \o allAttachmentLines(Tail(atts), boundary)

TextLinesOf(text) == [i \in 1..Len(text) |-> Line(text[i])]

\* lines 23-47: the lines of `raw`; opts.text is the sequence of its lines
rawLines(text, atts, token) ==
    LET boundary == boundaryOf(token)
        head == << Line("From: EMAIL_USER"), Line("To: EMAIL_TO"),
                   Line("Subject: EMAIL_SUBJECT"), Line("MIME-Version: 1.0") >>
    IN  IF Len(atts) > 0
        THEN head
             \o << Line("Content-Type: multipart/mixed; boundary=" \o boundary),
                   Line(""),
                   Line("--" \o boundary),
                   Line("Content-Type: text/plain; charset=utf-8"),
                   Line("") >>
             \o TextLinesOf(text)
             \o << Line("") >>
             \o allAttachmentLines(atts, boundary)
             \o << Line("--" \o boundary \o "--") >>
        ELSE head
             \o << Line("Content-Type: text/plain; charset=utf-8"), Line("") >>
             \o TextLinesOf(text)

(***************************************************************************)
(* Reading the message back, as a MIME reader does (RFC 2046): the header  *)
(* ends at the first empty line; a line equal to "--" boundary starts a    *)
(* part and the first line equal to "--" boundary "--" ends the entity.    *)
(***************************************************************************)
IndicesOf(lines, v, lo, hi) == {i \in lo..hi : lines[i] = v}

MinOf(S) == CHOOSE x \in S : \A y \in S : x <= y

Ascending(S) ==
    [j \in 1..Cardinality(S) |->
        CHOOSE x \in S : Cardinality({y \in S : y < x}) = j - 1]

IsMultipart(lines, boundary) ==
    lines[5] = Line("Content-Type: multipart/mixed; boundary=" \o boundary)

HeaderEnd(lines, lo, hi) ==
    LET empties == IndicesOf(lines, Line(""), lo, hi)
    IN  IF empties = {} THEN hi + 1 ELSE MinOf(empties)

CloseIndex(lines, boundary) ==
    LET he == HeaderEnd(lines, 1, Len(lines))
        closes == IndicesOf(lines, Line("--" \o boundary \o "--"), he + 1, Len(lines))
    IN  IF closes = {} THEN Len(lines) + 1 ELSE MinOf(closes)

PartStarts(lines, boundary) ==
    Ascending(IndicesOf(lines, Line("--" \o boundary),
                        HeaderEnd(lines, 1, Len(lines)) + 1,
                        CloseIndex(lines, boundary) - 1))

PartCount(lines, boundary) == Len(PartStarts(lines, boundary))

\* the lines of part j: after its delimiter, up to the next delimiter
PartLines(lines, boundary, j) ==
    LET starts == PartStarts(lines, boundary)
        last == IF j < Len(starts) THEN starts[j + 1] - 1
                ELSE CloseIndex(lines, boundary) - 1
    IN  SubSeq(lines, starts[j] + 1, last)

\* the body of a part: its lines after the first empty one
PartBody(part) == SubSeq(part, HeaderEnd(part, 1, Len(part)) + 1, Len(part))

RECURSIVE Symbols(_)
\* the base64 symbols of a part body, its line breaks removed
Symbols(body) ==
    IF body = <<>> THEN <<>>
    ELSE LET NotNL(x) == x # NL
         IN  SelectSeq(Head(body).b, NotNL) \o Symbols(Tail(body))

IsBase64Body(body) == \A i \in 1..Len(body) : body[i].s = ""

\* Buffer.from(text, "base64")
fromBase64(sym) ==
    LET pads == Cardinality({i \in 1..Len(sym) : sym[i] = Pad})
        S(i) == IF sym[i] = Pad THEN 0 ELSE sym[i]
    IN  [i \in 1..(3 * (Len(sym) \div 4) - pads) |->
            LET g == (i - 1) \div 3
                k == (i - 1) % 3
            IN  CASE k = 0 -> S(4 * g + 1) * 4 + S(4 * g + 2) \div 16
                  [] k = 1 -> (S(4 * g + 2) % 16) * 16 + S(4 * g + 3) \div 4
                  [] k = 2 -> (S(4 * g + 3) % 4) * 64 + S(4 * g + 4)]

(***************************************************************************)
(* Specification of buildRawMessage: any body text, any attachments, any   *)
(* value of Math.random.                                                   *)
(***************************************************************************)
MaxTextLines == 2
MaxAttachments == 2
MaxTail == 1

\* Math.random().toString(36).slice(2): "" when Math.random() returns 0
RandomTokens == {"", "k3"}

TextLineChoices == {"Attached CSV exports.", "--mixed_k3", "--mixed_k3--"}

\* file contents: long enough to be wrapped, with every padding length
FileContents ==
    {Run(65, n) \o t : n \in {0, 57, 58}, t \in CharSeqs({0, 45, 255}, MaxTail)}

Attachments ==
    [filename : {"a.csv"}, csv : {TRUE}, content : FileContents]
    \cup [filename : {"b.xlsx"}, csv : {FALSE}, content : FileContents]

RECURSIVE SeqsUpTo(_, _)
SeqsUpTo(S, n) ==
    IF n = 0 THEN {<<>>}
    ELSE LET shorter == SeqsUpTo(S, n - 1)
         IN  shorter \cup {Append(q, x) : q \in shorter, x \in S}

InitBuildRawMessage ==
    /\ fn = "buildRawMessage"
    /\ arg \in {<<t, a>> : t \in SeqsUpTo(TextLineChoices, MaxTextLines) \ {<<>>},
                          a \in SeqsUpTo(Attachments, MaxAttachments)}
    /\ ret = <<>>
    /\ RunIdle

CallBuildRawMessage ==
    /\ fn = "buildRawMessage"
    /\ ret = <<>>
    /\ \E token \in RandomTokens :
          ret' = <<rawLines(arg[1], arg[2], token), boundaryOf(token)>>
    /\ UNCHANGED <<fn, arg>>
    /\ UNCHANGED runVars

SpecBuildRawMessage == InitBuildRawMessage /\ [][CallBuildRawMessage]_vars

\* C7: with zero attachments the message is a single text/plain entity; with
\* k >= 1 attachments it is multipart/mixed with exactly k + 1 parts, and
\* decoding attachment part j gives back the bytes of file j, for every body
\* text, also one that holds the boundary line.
RawMessageStructure ==
    (fn = "buildRawMessage" /\ ret # <<>>) =>
        LET lines == ret[1]
            boundary == ret[2]
            atts == arg[2]
            k == Len(atts)
        IN  IF k = 0
            THEN /\ lines[5] = Line("Content-Type: text/plain; charset=utf-8")
                 /\ ~IsMultipart(lines, boundary)
            ELSE /\ IsMultipart(lines, boundary)
                 /\ PartCount(lines, boundary) = k + 1
                 /\ \A j \in 1..k :
                       LET body == PartBody(PartLines(lines, boundary, j + 1))
                       IN  /\ IsBase64Body(body)
                           /\ fromBase64(Symbols(body)) = atts[j].content

\* the same for body texts that hold no line of the boundary's form
RawMessageStructureClean ==
    (\A i \in 1..Len(arg[1]) : arg[1][i] = "Attached CSV exports.")
        => RawMessageStructure

(***************************************************************************)
(* getGmailAccessToken (src/domo_export.ts:200-229, the same text in       *)
(* src/unnamed/part_000:47-76).  The response of the token endpoint is its *)
(* status, its body, whether reading the body fails, and the access_token  *)
(* of its JSON payload ("" when absent).  An error is the thrown object:   *)
(* its name (its kind) and the pieces its message is built from.           *)
(***************************************************************************)
Statuses == {200, 400, 401, 403, 500, 503}

StatusText(status) ==
    CASE status = 200 -> "OK"
      [] status = 400 -> "Bad Request"
      [] status = 401 -> "Unauthorized"
      [] status = 403 -> "Forbidden"
      [] status = 500 -> "Internal Server Error"
      [] status = 503 -> "Service Unavailable"

Bodies == { "{error: invalid_grant, error_description: Token has been revoked}",
            "{error: invalid_client, client_id: 1234.apps.googleusercontent.com}",
            "<html>upstream error</html>" }

Responses ==
    [status : Statuses, body : Bodies, textFails : BOOLEAN,
     access_token : {"", "ya29.token"}]

NoError == [name |-> "none", text |-> "", status |-> 0, statusText |-> "", body |-> ""]

\* response.ok
ResponseOk(r) == r.status >= 200 /\ r.status <= 299

\* what getGmailAccessToken returns or throws
getGmailAccessToken(r) ==
    IF ~ResponseOk(r)
    THEN [token |-> "",
          error |-> [name |-> "Error",
                     text |-> "Failed to fetch Gmail access token",
                     status |-> r.status,
                     statusText |-> StatusText(r.status),
                     body |-> IF r.textFails THEN "<no body>" ELSE r.body]]
    ELSE IF r.access_token = ""
    THEN [token |-> "",
          error |-> [name |-> "Error",
                     text |-> "Gmail token response did not include access_token",
                     status |-> 0, statusText |-> "", body |-> ""]]
    ELSE [token |-> r.access_token, error |-> NoError]

\* the rejection of transporter.sendMail (line 278) reaches the caller as the
\* mail library raised it: an Error object, not rewrapped
sendMailError ==
    [name |-> "Error", text |-> "Mail command failed", status |-> 0,
     statusText |-> "", body |-> ""]

InitToken ==
    /\ fn = "getGmailAccessToken"
    /\ arg \in {<<r>> : r \in Responses}
    /\ ret = <<>>
    /\ RunIdle

CallGetGmailAccessToken ==
    /\ fn = "getGmailAccessToken"
    /\ ret = <<>>
    /\ ret' = <<getGmailAccessToken(arg[1])>>
    /\ UNCHANGED <<fn, arg>>
    /\ UNCHANGED runVars

SpecToken == InitToken /\ [][CallGetGmailAccessToken]_vars

\* C8: after a non-success status the error carries the status code, never
\* the raw response body, and its kind differs from that of a send failure.
TokenErrorCarriesStatusNotBody ==
    (fn = "getGmailAccessToken" /\ ret # <<>> /\ ~ResponseOk(arg[1])) =>
        LET e == ret[1].error
        IN  /\ e.status = arg[1].status
            /\ e.body # arg[1].body
            /\ e.name # sendMailError.name

(***************************************************************************)
(* getPreviousMondayAndSunday (src/domo_export.ts:294-311).  A Date is a   *)
(* local calendar day (days since 1970-01-01) and a local hour; the        *)
(* environment's zone is its offset from UTC in hours.                     *)
(***************************************************************************)
\* the Gregorian calendar, as Date keeps it
DaysFromCivil(y, m, d) ==
    LET yy == IF m <= 2 THEN y - 1 ELSE y
        era == yy \div 400
        yoe == yy - era * 400
        mp == IF m > 2 THEN m - 3 ELSE m + 9
        doy == (153 * mp + 2) \div 5 + d - 1
        doe == yoe * 365 + yoe \div 4 - yoe \div 100 + doy
    IN  era * 146097 + doe - 719468

CivilFromDays(z) ==
    LET zz == z + 719468
        era == zz \div 146097
        doe == zz - era * 146097
        yoe == (doe - doe \div 1460 + doe \div 36524 - doe \div 146096) \div 365
        doy == doe - (365 * yoe + yoe \div 4 - yoe \div 100)
        mp == (5 * doy + 2) \div 153
        d == doy - (153 * mp + 2) \div 5 + 1
        m == IF mp < 10 THEN mp + 3 ELSE mp - 9
        y == yoe + era * 400
    IN  <<IF m <= 2 THEN y + 1 ELSE y, m, d>>

\* Date.prototype.getDay(): 0 is Sunday; 1970-01-01 was a Thursday
getDay(date) == (date.day + 4) % 7

\* Date.prototype.getDate(): the day of the month
getDate(date) == CivilFromDays(date.day)[3]

\* Date.prototype.setDate(n): day n of the date's month, carried over the
\* month's ends
setDate(date, n) ==
    LET c == CivilFromDays(date.day)
    IN  [date EXCEPT !.day = DaysFromCivil(c[1], c[2], 1) + n - 1]

\* date.toISOString().split('T')[0]: the calendar day of the instant in UTC
formatDate(date, zone) ==
    CivilFromDays((date.day * 24 + date.hour - zone) \div 24)

\* lines 295-310
getPreviousMondayAndSunday(today, zone) ==
    LET monday0 == setDate(today, getDate(today) - getDay(today) + 1)
        lastMonday == setDate(monday0, getDate(monday0) - 7)
        lastSunday == setDate(lastMonday, getDate(lastMonday) + 6)
    IN  <<formatDate(lastMonday, zone), formatDate(lastSunday, zone)>>

\* the days the model takes for today: from FirstDay on, over the end of a
\* year, a leap day and the spec's example
FirstDay == DaysFromCivil(2023, 12, 20)
NumDays == 90
Hours == {0, 12, 23}
Zones == {-8, 0, 9}

InitDate ==
    /\ fn = "getPreviousMondayAndSunday"
    /\ arg \in {<<[day |-> FirstDay + n, hour |-> h], z>> :
                   n \in 0..(NumDays - 1), h \in Hours, z \in Zones}
    /\ ret = <<>>
    /\ RunIdle

CallGetPreviousMondayAndSunday ==
    /\ fn = "getPreviousMondayAndSunday"
    /\ ret = <<>>
    /\ ret' = <<getPreviousMondayAndSunday(arg[1], arg[2])>>
    /\ UNCHANGED <<fn, arg>>
    /\ UNCHANGED runVars

SpecDate == InitDate /\ [][CallGetPreviousMondayAndSunday]_vars

\* the Monday of the Monday-to-Sunday week that holds the day
MondayOfWeek(day) == day - ((day + 3) % 7)

\* C9: for every current date the range is the Monday-to-Sunday week before
\* the week of the current date; for Wednesday 2024-03-13 it is 2024-03-04
\* to 2024-03-10.
RangeIsPrecedingWeek ==
    (fn = "getPreviousMondayAndSunday" /\ ret # <<>>) =>
        LET start == DaysFromCivil(ret[1][1][1], ret[1][1][2], ret[1][1][3])
            end == DaysFromCivil(ret[1][2][1], ret[1][2][2], ret[1][2][3])
            today == arg[1].day
        IN  /\ start = MondayOfWeek(today) - 7
            /\ (start + 4) % 7 = 1
            /\ end = start + 6
            /\ end < MondayOfWeek(today)
            /\ today = DaysFromCivil(2024, 3, 13) =>
                  ret[1] = <<<<2024, 3, 4>>, <<2024, 3, 10>>>>

\* the same with the zone at UTC and the current date not a Sunday
RangeIsPrecedingWeekUtcNotSunday ==
    (arg[2] = 0 /\ getDay(arg[1]) # 0) => RangeIsPrecedingWeek

====
